---- MODULE Spec2Model ----
(***************************************************************************)
(* A model of the PO catalogue reader of translate-storage (src/po.rs,     *)
(* src/lib.rs).                                                            *)
(*                                                                         *)
(* Text is a sequence of lexemes.  A lexeme is one character ("#", "~",    *)
(* "|", a space, a double quote, a backslash, ...) or one word that the    *)
(* program only ever handles as a whole ("msgid", "fuzzy", "Language").    *)
(* The characters LF, TAB and CR that unescaping produces are the lexemes  *)
(* "LF", "TAB" and "CR".                                                   *)
(***************************************************************************)
EXTENDS Naturals, Sequences, FiniteSets

VARIABLES
    blocks,            \* the file as written: a sequence of blocks of lines
    input,             \* the lines the underlying reader supplies (Lines<R>)
    _lines,            \* Peekable<LineIter<R>>: _n, cursor, peeked item
    _next_unit,        \* PoReader::_next_unit, the read-ahead item
    _header,           \* PoReader::_header, a set of <<key, value>>
    _target_language,  \* PoReader::_target_language
    phase,             \* "source" before PoReader::new, "reader" after
    assembled,         \* history: every result of next_unit(), in order
    yielded            \* history: every value returned by next(), in order

vars == <<blocks, input, _lines, _next_unit, _header, _target_language,
          phase, assembled, yielded>>

----------------------------------------------------------------------------
(* Lexemes *)

Q  == "\""
BS == "\\"
SP == " "

\* char::is_whitespace on the lexemes of the model
IsWhitespace(c) == c \in {" ", "TAB", "CR", "LF"}

\* the first index >= i of s that holds no whitespace (Len(s)+1 if none)
SkipWs(s, i) ==
    CHOOSE j \in i..(Len(s) + 1) :
        /\ j = Len(s) + 1 \/ ~IsWhitespace(s[j])
        /\ \A k \in i..(j - 1) : IsWhitespace(s[k])

\* the last index of s that holds no whitespace (0 if none)
LastNonWs(s) ==
    CHOOSE j \in 0..Len(s) :
        /\ j = 0 \/ ~IsWhitespace(s[j])
        /\ \A k \in (j + 1)..Len(s) : IsWhitespace(s[k])

\* str::trim
Trim(s) ==
    IF SkipWs(s, 1) > LastNonWs(s) THEN <<>>
    ELSE SubSeq(s, SkipWs(s, 1), LastNonWs(s))

----------------------------------------------------------------------------
(* Escape sequences *)

\* UNESCAPE_MAP: the character an escape sequence stands for
UNESCAPE_MAP(c) ==
    CASE c = "r" -> "CR"
      [] c = "t" -> "TAB"
      [] c = "n" -> "LF"
      [] c = Q   -> Q
      [] c = BS  -> BS

\* UNESCAPE_RE matches at index i of s
UNESCAPE_RE(s, i) ==
    /\ i + 1 <= Len(s)
    /\ s[i] = BS
    /\ s[i + 1] \in {"r", "t", "n", Q, BS}

\* the text s with the match at index i rewritten (i = 0: no match)
Unescape_at(s, i) ==
    IF i = 0 THEN s
    ELSE SubSeq(s, 1, i - 1) \o <<UNESCAPE_MAP(s[i + 1])>> \o SubSeq(s, i + 2, Len(s))

\* the index of the leftmost match of UNESCAPE_RE in s (0 if there is none)
UNESCAPE_RE_find(s) ==
    IF \A i \in 1..Len(s) : ~UNESCAPE_RE(s, i) THEN 0
    ELSE CHOOSE i \in 1..Len(s) :
             UNESCAPE_RE(s, i) /\ \A k \in 1..(i - 1) : ~UNESCAPE_RE(s, k)

\* UNESCAPE_RE.replace(body, ...): Regex::replace rewrites the leftmost match
\* only and copies the rest of the text as it is
Unescape(s) == Unescape_at(s, UNESCAPE_RE_find(s))

----------------------------------------------------------------------------
(* Line classifier *)

\* the tags MESSAGE_RE accepts
MessageTags ==
    {"msgctxt", "msgid", "msgif_plural", "msgstr",
     "msgstr[0]", "msgstr[1]", "msgstr[2]", "msgstr[3]", "msgstr[4]", "msgstr[5]"}

\* the lexeme at index i of a line, or a mark past its end
At(line, i) == IF i <= Len(line) THEN line[i] ELSE "<eol>"

\* MESSAGE_RE from \s*"(.*)"\s*$ on: the quote is due at index i4, and e is the
\* last index of the line that is not blank
MESSAGE_RE_quoted(line, g1, hasT, g2, i4, e) ==
    [ok |-> At(line, i4) = Q /\ e > i4 /\ At(line, e) = Q,
     g1 |-> g1,
     has2 |-> hasT,
     g2 |-> g2,
     g3 |-> IF At(line, i4) = Q /\ e > i4 /\ At(line, e) = Q
            THEN SubSeq(line, i4 + 1, e - 1) ELSE <<>>]

\* MESSAGE_RE from (msgctxt|msgid|...)? on, at index i2
MESSAGE_RE_tagged(line, g1, i2, hasT) ==
    MESSAGE_RE_quoted(line, g1, hasT, IF hasT THEN At(line, i2) ELSE "",
                      SkipWs(line, IF hasT THEN i2 + 1 ELSE i2), LastNonWs(line))

\* MESSAGE_RE after the marker, which runs from index i0 to index i1 - 1
MESSAGE_RE_marked(line, i0, i1) ==
    MESSAGE_RE_tagged(line,
                      IF At(line, i0) = "#" THEN SubSeq(line, i0, i1 - 1) ELSE <<>>,
                      SkipWs(line, i1),
                      At(line, SkipWs(line, i1)) \in MessageTags)

\* MESSAGE_RE from (#~?\|?)? on, at index i0
MESSAGE_RE_start(line, i0) ==
    MESSAGE_RE_marked(line, i0,
        IF At(line, i0) # "#" THEN i0
        ELSE IF At(line, i0 + 1) = "~"
             THEN (IF At(line, i0 + 2) = "|" THEN i0 + 3 ELSE i0 + 2)
             ELSE (IF At(line, i0 + 1) = "|" THEN i0 + 2 ELSE i0 + 1))

\* MESSAGE_RE.captures(line): whether the line matches, and groups 1 to 3
MESSAGE_RE(line) == MESSAGE_RE_start(line, SkipWs(line, 1))

\* COMMENT_RE once ([:.,])? is decided
COMMENT_RE_start(line, i0, hasK) ==
    [ok |-> At(line, i0) = "#",
     g1 |-> IF hasK THEN At(line, i0 + 1) ELSE "",
     g2 |-> IF At(line, i0) = "#"
            THEN SubSeq(line, SkipWs(line, IF hasK THEN i0 + 2 ELSE i0 + 1), Len(line))
            ELSE <<>>]

\* COMMENT_RE from # on, at index i0
COMMENT_RE_at(line, i0) ==
    COMMENT_RE_start(line, i0, At(line, i0 + 1) \in {":", ".", ","})

\* COMMENT_RE.captures(line): whether the line matches, and groups 1 and 2
COMMENT_RE(line) == COMMENT_RE_at(line, SkipWs(line, 1))

\* A classified line or an error, in one shape:
\*   k  "Comment" | "Message" | "Continuation" | "Blank" | "Syntax"
\*      | "Io" | "None"
\*   n  the line number given to it;  p  the marker;  t  the tag, or the
\*   kind of comment;  s  the text
PoLine(k, n, p, t, s) == [k |-> k, n |-> n, p |-> p, t |-> t, s |-> s]

\* parse_po_line on the captures c of MESSAGE_RE and d of COMMENT_RE
parse_po_line_captures(line, n, c, d) ==
    IF c.ok
    THEN IF c.has2
         THEN PoLine("Message", n, c.g1,
                     IF c.g1 # <<>> /\ c.g1[Len(c.g1)] = "|"
                     THEN <<"|", c.g2>> ELSE <<c.g2>>,
                     Unescape(c.g3))
         ELSE PoLine("Continuation", n, c.g1, <<>>, Unescape(c.g3))
    ELSE IF d.ok
         THEN PoLine("Comment", n, <<>>, <<IF d.g1 = "" THEN " " ELSE d.g1>>, d.g2)
         ELSE PoLine("Syntax", n, <<>>, <<>>, line)

\* parse_po_line; Err(()) is the kind "Syntax", which carries the raw line
parse_po_line(line, n) ==
    IF \A i \in 1..Len(line) : IsWhitespace(line[i])
    THEN PoLine("Blank", n, <<>>, <<>>, <<>>)
    ELSE parse_po_line_captures(line, n, MESSAGE_RE(line), COMMENT_RE(line))

----------------------------------------------------------------------------
(* Line source: LineIter over the lines of the underlying reader *)

\* One element of the underlying Lines<R>: Ok(text) or Err(e)
Line(text) == [ok |-> TRUE, text |-> text]
ReadFailure == [ok |-> FALSE, text |-> <<>>]

NoLine == PoLine("None", 0, <<>>, <<>>, <<>>)

\* LineIter::new under Peekable: no line counted, nothing read, nothing peeked.
\*   _n, pos     LineIter::_n and the cursor of LineIter::_inner
\*   has, item   Peekable's buffer
\*   reads, used history: calls of _inner.next(); the input indices of the
\*               tokens consumed by the assembly under way
LineIter_new ==
    [_n |-> 0, pos |-> 0, has |-> FALSE, item |-> NoLine,
     reads |-> 0, used |-> <<>>]

\* LineIter::next: the next item that is not Blank.  The kinds "Syntax" and
\* "Io" are Some(Err(Error::Parse(_n, Some(line), []))) and
\* Some(Err(Error::Io(_n + 1, e))); "None" is None.
RECURSIVE LineIter_next(_)

\* LineIter_next_classified with the Blank lines left out of the count
LineIter_next_blank_uncounted(l2, p) ==
    IF p.k = "Blank" THEN LineIter_next([l2 EXCEPT !._n = @ - 1])
    ELSE [l |-> l2, item |-> p]

\* the match on parse_po_line's result: a Blank is skipped
LineIter_next_classified(l2, p) ==
    IF p.k = "Blank" THEN LineIter_next(l2) ELSE [l |-> l2, item |-> p]

\* the match on the element e that _inner.next() gave; l1 is l past it
LineIter_next_read(l, e, l1) ==
    IF ~e.ok
    THEN [l |-> l1, item |-> PoLine("Io", l._n + 1, <<>>, <<>>, <<>>)]
    ELSE LineIter_next_classified([l1 EXCEPT !._n = @ + 1],
                                  parse_po_line(e.text, l1._n + 1))

LineIter_next(l) ==
    IF l.pos >= Len(input)
    THEN [l |-> [l EXCEPT !.reads = @ + 1], item |-> NoLine]
    ELSE LineIter_next_read(l, input[l.pos + 1],
                            [l EXCEPT !.pos = @ + 1, !.reads = @ + 1])

\* the buffer filled with the result r of LineIter::next
Peekable_filled(r) == [r.l EXCEPT !.has = TRUE, !.item = r.item]

\* Peekable::peek: fill the buffer if it is empty (a None is buffered too)
Peekable_peek(l) == IF l.has THEN l ELSE Peekable_filled(LineIter_next(l))

\* the item of r handed out, and noted as consumed unless it is None
Peekable_taken(r) ==
    [l |-> IF r.item.k = "None" THEN r.l
           ELSE [r.l EXCEPT !.used = Append(@, r.l.pos)],
     item |-> r.item]

\* Peekable::next: take the buffered item, or read one
Peekable_next(l) ==
    Peekable_taken(IF l.has
                   THEN [l |-> [l EXCEPT !.has = FALSE, !.item = NoLine],
                         item |-> l.item]
                   ELSE LineIter_next(l))

IsErr(item) == item.k \in {"Syntax", "Io"}

----------------------------------------------------------------------------
(* Data model (lib.rs) *)

None == [some |-> FALSE, v |-> <<>>]
Some(v) == [some |-> TRUE, v |-> v]

\* Message: Empty, Singular(s) or Plural(m), m a set of <<Count, text>>
Empty == [k |-> "Empty", s |-> <<>>, m |-> {}]
Singular(s) == [k |-> "Singular", s |-> s, m |-> {}]
Plural(m) == [k |-> "Plural", s |-> <<>>, m |-> m]

is_empty(msg) == msg.k = "Empty"
is_singular(msg) == msg.k = "Singular"
is_plural(msg) == msg.k = "Plural"

is_blank(msg) ==
    CASE msg.k = "Empty" -> TRUE
      [] msg.k = "Singular" -> msg.s = <<>>
      [] msg.k = "Plural" -> \A e \in msg.m : e[2] = <<>>

\* Message::singular(), followed by unwrap_or("")
singular_or_empty(msg) == IF msg.k = "Singular" THEN msg.s ELSE <<>>

\* BTreeMap::insert, HashMap::insert: the new value replaces the old one
MapInsert(m, key, val) == {e \in m : e[1] # key} \cup {<<key, val>>}

\* Unit::default()
DefaultUnit ==
    [_context |-> None, _source |-> Empty, _target |-> Empty,
     _prev_context |-> None, _prev_source |-> Empty,
     _notes |-> <<>>, _locations |-> <<>>,
     _state |-> "Empty", _obsolete |-> FALSE]

\* Error::Parse(n, got, exp) and Error::Io(n, e)
ParseError(n, got, exp) == [k |-> "Parse", n |-> n, got |-> got, exp |-> exp]
IoError(n) == [k |-> "Io", n |-> n, got |-> None, exp |-> <<>>]
NoError == [k |-> "", n |-> 0, got |-> None, exp |-> <<>>]

\* the Error an Err item of the line source carries
ErrorOf(item) ==
    IF item.k = "Io" THEN IoError(item.n)
    ELSE ParseError(item.n, Some(item.s), <<>>)

----------------------------------------------------------------------------
(* MsgParser for Peekable<LineIter<R>> *)

\* str::split(sep): the pieces between separators (one piece if there is none)
RECURSIVE Split(_, _)

Split_at(s, seps, i) ==
    <<SubSeq(s, 1, i - 1)>> \o Split(SubSeq(s, i + 1, Len(s)), seps)

Split(s, seps) ==
    IF \A i \in 1..Len(s) : s[i] \notin seps THEN <<s>>
    ELSE Split_at(s, seps,
                  CHOOSE i \in 1..Len(s) :
                      s[i] \in seps /\ \A k \in 1..(i - 1) : s[k] \notin seps)

NonEmpty(ss) == SelectSeq(ss, LAMBDA x : x # <<>>)

\* parse_comments: consume the comments at the head of the stream into unit
RECURSIVE parse_comments(_, _)

\* the match on one comment of the given kind and text
parse_comments_comment(unit, kind, s, flags) ==
    CASE kind = "," ->
           IF \E i \in 1..Len(flags) : Trim(flags[i]) = <<"fuzzy">>
           THEN [unit EXCEPT !._state = "NeedsWork"]
           ELSE unit
      [] kind = ":" ->
           [unit EXCEPT !._locations =
               @ \o NonEmpty(Split(s, {" ", "TAB", "CR", "LF"}))]
      [] kind = "." ->
           [unit EXCEPT !._notes = Append(@, <<"Developer", s>>)]
      [] kind = " " ->
           [unit EXCEPT !._notes = Append(@, <<"Translator", s>>)]

\* parse_comments with the item r taken from the stream by next(): a comment
\* of one of the four kinds, or else unreachable!()
parse_comments_taken(r, unit) ==
    IF r.item.k = "Comment" /\ r.item.t[1] \in {",", ":", ".", " "}
    THEN parse_comments(r.l, parse_comments_comment(unit, r.item.t[1], r.item.s,
                                                    Split(r.item.s, {","})))
    ELSE [l |-> r.l, unit |-> unit, panic |-> TRUE]

\* parse_comments on the line source l1 with its head peeked
parse_comments_peeked(l1, unit) ==
    IF l1.item.k # "Comment" THEN [l |-> l1, unit |-> unit, panic |-> FALSE]
    ELSE parse_comments_taken(Peekable_next(l1), unit)

\* parse_comments: consume the comments at the head of the stream into unit
parse_comments(l, unit) == parse_comments_peeked(Peekable_peek(l), unit)

starts_with_obsolete(p) == Len(p) >= 2 /\ p[1] = "#" /\ p[2] = "~"

\* the loop of parse_msg: append the continuation lines that carry the prefix
RECURSIVE parse_msg_loop(_, _, _)

\* the item r taken by next() in the loop: a Continuation, whose text is
\* appended, or else unreachable!()
parse_msg_loop_taken(r, prefix, string) ==
    IF r.item.k = "Continuation"
    THEN parse_msg_loop(r.l, prefix, string \o r.item.s)
    ELSE [l |-> r.l, k |-> "Panic", e |-> NoError, s |-> <<>>]

parse_msg_loop_peeked(l1, prefix, string) ==
    IF IsErr(l1.item)
    THEN [l |-> Peekable_next(l1).l, k |-> "Err", e |-> ErrorOf(l1.item), s |-> <<>>]
    ELSE IF l1.item.k = "Continuation" /\ l1.item.p = prefix
         THEN parse_msg_loop_taken(Peekable_next(l1), prefix, string)
         ELSE [l |-> l1, k |-> "Some", e |-> NoError, s |-> string]

parse_msg_loop(l, prefix, string) ==
    parse_msg_loop_peeked(Peekable_peek(l), prefix, string)

\* the item r taken by next() for the tag line: a Message, whose marker is
\* the prefix and whose text starts the string, or else unreachable!()
parse_msg_taken(r) ==
    IF r.item.k = "Message"
    THEN parse_msg_loop(r.l, r.item.p, r.item.s)
    ELSE [l |-> r.l, k |-> "Panic", e |-> NoError, s |-> <<>>]

\* parse_msg without the comparison of the marker with unit._obsolete
parse_msg_any_marker(l, tag, unit) ==
    LET l1 == Peekable_peek(l)
    IN  IF IsErr(l1.item)
        THEN [l |-> Peekable_next(l1).l, k |-> "Err",
              e |-> ErrorOf(l1.item), s |-> <<>>]
        ELSE IF l1.item.k = "Message" /\ l1.item.t = tag
             THEN parse_msg_loop(Peekable_next(l1).l, l1.item.p, l1.item.s)
             ELSE [l |-> l1, k |-> "None", e |-> NoError, s |-> <<>>]

\* parse_msg_peeked without the return of the error that is peeked
parse_msg_errors_left(l1, tag, unit) ==
    IF /\ l1.item.k = "Message"
       /\ l1.item.t = tag
       /\ starts_with_obsolete(l1.item.p) = unit._obsolete
    THEN parse_msg_taken(Peekable_next(l1))
    ELSE [l |-> l1, k |-> "None", e |-> NoError, s |-> <<>>]

\* parse_msg on the line source l1 with its head peeked
parse_msg_peeked(l1, tag, unit) ==
    IF IsErr(l1.item)
    THEN [l |-> Peekable_next(l1).l, k |-> "Err", e |-> ErrorOf(l1.item), s |-> <<>>]
    ELSE IF /\ l1.item.k = "Message"
            /\ l1.item.t = tag
            /\ starts_with_obsolete(l1.item.p) = unit._obsolete
         THEN parse_msg_taken(Peekable_next(l1))
         ELSE [l |-> l1, k |-> "None", e |-> NoError, s |-> <<>>]

\* parse_msg: Err(e), Ok(None) or Ok(Some(s)), as k = "Err", "None", "Some";
\* k = "Panic" if the call did not return
parse_msg(l, tag, unit) == parse_msg_peeked(Peekable_peek(l), tag, unit)

\* What next_unit() returns, Option<Result<Unit, Error>>, in one shape:
\*   k     "None" | "Ok" | "Err" | "Panic" (the call did not return)
\*   used  history: the input indices of the lines the assembly consumed
Item(k, unit, err, used) == [k |-> k, unit |-> unit, err |-> err, used |-> used]

NoItem == Item("None", DefaultUnit, NoError, <<>>)

\* expected with the expected names left out of the error
expected_unnamed(l, exp) ==
    LET l1 == Peekable_peek(l)
        t  == l1.item
    IN  [l |-> l1,
         item |->
           CASE t.k = "Message" ->
                  Item("Err", DefaultUnit, ParseError(t.n, Some(t.p), <<>>), l1.used)
             [] t.k = "Continuation" ->
                  Item("Err", DefaultUnit, ParseError(t.n, Some(<<Q>>), <<>>), l1.used)
             [] t.k = "Comment" ->
                  Item("Err", DefaultUnit,
                       ParseError(t.n, Some(<<"#", t.t[1]>>), <<>>), l1.used)
             [] t.k = "None" -> Item("None", DefaultUnit, NoError, l1.used)
             [] OTHER -> Item("Panic", DefaultUnit, NoError, l1.used)]

\* expected on the peeked item t
expected_peeked(l1, t, exp) ==
    [l |-> l1,
     item |->
       CASE t.k = "Message" ->
              Item("Err", DefaultUnit, ParseError(t.n, Some(t.p), exp), l1.used)
         [] t.k = "Continuation" ->
              Item("Err", DefaultUnit, ParseError(t.n, Some(<<Q>>), exp), l1.used)
         [] t.k = "Comment" ->
              Item("Err", DefaultUnit,
                   ParseError(t.n, Some(<<"#", t.t[1]>>), exp), l1.used)
         [] t.k = "None" -> Item("None", DefaultUnit, NoError, l1.used)
         [] OTHER -> Item("Panic", DefaultUnit, NoError, l1.used)]

\* expected on the line source l1 with its head peeked
expected_peek(l1, exp) == expected_peeked(l1, l1.item, exp)

\* expected: the error for a mandatory tag that is absent
expected(l, exp) == expected_peek(Peekable_peek(l), exp)

----------------------------------------------------------------------------
(* PoReader *)

\* PoReader::_plurals: Vec::new(), and nothing ever fills it
_plurals == <<>>

\* TAGS of parse_unit
TAGS ==
    <<"msgstr[0]", "msgstr[1]", "msgstr[2]", "msgstr[3]", "msgstr[4]",
      "msgstr[5]", "msgstr[6]">>

\* make_source
make_source(msgid, msgid_plural) ==
    IF ~msgid.some THEN Empty
    ELSE IF ~msgid_plural.some THEN Singular(msgid.v)
    ELSE Plural(MapInsert(MapInsert({}, "One", msgid.v), "Other", msgid_plural.v))

\* Option<String> of a parse_msg result that is not an Err
OptionOf(r) == IF r.k = "Some" THEN Some(r.s) ELSE None

\* the plural branch of parse_unit: one msgstr[i] per declared Count
RECURSIVE parse_plural_target(_, _, _, _)

parse_plural_target_parsed(r, unit, i, map) ==
    IF r.k = "Some"
    THEN parse_plural_target(r.l, unit, i + 1, MapInsert(map, _plurals[i], r.s))
    ELSE [l |-> r.l, k |-> r.k, e |-> r.e, m |-> map, i |-> i]

parse_plural_target(l, unit, i, map) ==
    IF i > Len(_plurals) \/ i > Len(TAGS)
    THEN [l |-> l, k |-> "Some", e |-> NoError, m |-> map, i |-> i]
    ELSE parse_plural_target_parsed(parse_msg(l, <<TAGS[i]>>, unit), unit, i, map)

\* the assert on the source and the return of the unit u
finish_unit_checked(l, u) ==
    [l |-> l,
     item |-> IF is_empty(u._source)
              THEN Item("Panic", DefaultUnit, NoError, l.used)
              ELSE Item("Ok", u, NoError, l.used)]

\* finish_unit with the state set to Final whatever the comments set
finish_unit_final(l, unit) ==
    finish_unit_checked(l, IF ~is_blank(unit._target)
                           THEN [unit EXCEPT !._state = "Final"]
                           ELSE unit)

\* the end of parse_unit: derive the state, check the source, return the unit
finish_unit(l, unit) ==
    finish_unit_checked(l, IF unit._state = "Empty" /\ ~is_blank(unit._target)
                           THEN [unit EXCEPT !._state = "Final"]
                           ELSE unit)

\* a parse_msg call made with `?` did not give a value: it returned an Err,
\* or it panicked
Aborted(r) == r.k \in {"Err", "Panic"}

\* the failure of a parse_msg call made with `?`
Failed(r) == [l |-> r.l, item |-> Item(r.k, DefaultUnit, r.e, r.l.used)]

\* parse_unit after the plural targets, msgstr[0] and so on
parse_unit_targets(pt, u1) ==
    IF Aborted(pt) THEN Failed(pt)
    ELSE IF pt.k = "None" THEN expected(pt.l, <<TAGS[pt.i]>>)
    ELSE finish_unit(pt.l, [u1 EXCEPT !._target = Plural(pt.m)])

\* parse_unit after the singular target, msgstr
parse_unit_target(st, u1) ==
    IF Aborted(st) THEN Failed(st)
    ELSE IF st.k = "None" THEN expected(st.l, <<"msgstr">>)
    ELSE finish_unit(st.l, [u1 EXCEPT !._target = Singular(st.s)])

\* parse_unit once the source is made: the target that suits the source
parse_unit_sourced(l, u1) ==
    IF is_singular(u1._source)
    THEN parse_unit_target(parse_msg(l, <<"msgstr">>, u1), u1)
    ELSE IF ~is_plural(u1._source)
    THEN [l |-> l, item |-> Item("Panic", DefaultUnit, NoError, l.used)]
    ELSE parse_unit_targets(parse_plural_target(l, u1, 1, {}), u1)

\* parse_unit after msgid_plural
parse_unit_plural(id, pl, unit) ==
    IF Aborted(pl) THEN Failed(pl)
    ELSE parse_unit_sourced(pl.l, [unit EXCEPT !._source =
                                      make_source(OptionOf(id), OptionOf(pl))])

\* parse_unit_source without the return of expected() when msgid is absent
parse_unit_source_unchecked(id, unit) ==
    IF Aborted(id) THEN Failed(id)
    ELSE parse_unit_plural(id, parse_msg(id.l, <<"msgid_plural">>, unit), unit)

\* parse_unit after msgid
parse_unit_source(id, unit) ==
    IF Aborted(id) THEN Failed(id)
    ELSE IF id.k = "None" THEN expected(id.l, <<"msgid">>)
    ELSE parse_unit_plural(id, parse_msg(id.l, <<"msgid_plural">>, unit), unit)

\* parse_unit from msgid on (lines 279 to 313)
parse_unit_msgid(l, unit) == parse_unit_source(parse_msg(l, <<"msgid">>, unit), unit)

\* parse_unit_context with the previous context taken from msgctxt as well
parse_unit_context_as_previous(cx, u2) ==
    IF Aborted(cx) THEN Failed(cx)
    ELSE parse_unit_msgid(cx.l, [u2 EXCEPT !._context = OptionOf(cx),
                                           !._prev_context = OptionOf(cx)])

\* parse_unit after msgctxt
parse_unit_context(cx, u2) ==
    IF Aborted(cx) THEN Failed(cx)
    ELSE parse_unit_msgid(cx.l, [u2 EXCEPT !._context = OptionOf(cx)])

\* parse_unit after #| msgid_plural, which is asked for only after a #| msgid
parse_unit_prev_plural(pi, pp, u1) ==
    IF Aborted(pp) THEN Failed(pp)
    ELSE parse_unit_context(
             parse_msg(pp.l, <<"msgctxt">>,
                       [u1 EXCEPT !._prev_source =
                           make_source(OptionOf(pi), OptionOf(pp))]),
             [u1 EXCEPT !._prev_source = make_source(OptionOf(pi), OptionOf(pp))])

\* parse_unit after #| msgid
parse_unit_prev_source(pi, u1) ==
    IF Aborted(pi) THEN Failed(pi)
    ELSE parse_unit_prev_plural(pi,
             IF pi.k = "Some" THEN parse_msg(pi.l, <<"|", "msgid_plural">>, u1)
             ELSE [l |-> pi.l, k |-> "None", e |-> NoError, s |-> <<>>],
             u1)

\* parse_unit after #| msgctxt
parse_unit_prev_context(pc, u0) ==
    IF Aborted(pc) THEN Failed(pc)
    ELSE parse_unit_prev_source(
             parse_msg(pc.l, <<"|", "msgid">>,
                       [u0 EXCEPT !._prev_context = OptionOf(pc)]),
             [u0 EXCEPT !._prev_context = OptionOf(pc)])

\* parse_unit once the obsolete flag is set
parse_unit_marked(l1, u0) ==
    parse_unit_prev_context(parse_msg(l1, <<"|", "msgctxt">>, u0), u0)

\* parse_unit after the comments: the line peeked decides the obsolete flag
parse_unit_peeked(c, l1, t) ==
    IF t.k = "None"
    THEN [l |-> l1, item |-> Item("None", DefaultUnit, NoError, l1.used)]
    ELSE parse_unit_marked(l1, IF t.k = "Message" /\ starts_with_obsolete(t.p)
                               THEN [c.unit EXCEPT !._obsolete = TRUE]
                               ELSE c.unit)

\* parse_unit after parse_comments returned c: peek the next line
parse_unit_commented(c, l1) == parse_unit_peeked(c, l1, l1.item)

\* parse_unit after parse_comments, unless that call panicked
parse_unit_comments(c) ==
    IF c.panic THEN [l |-> c.l, item |-> Item("Panic", DefaultUnit, NoError, c.l.used)]
    ELSE parse_unit_commented(c, Peekable_peek(c.l))

\* parse_unit: assemble one entry.  The result is Ok(None), Ok(Some(unit))
\* or Err(e), as an Item of kind "None", "Ok" or "Err", with the line
\* source as the call leaves it.
parse_unit(l0) ==
    parse_unit_comments(parse_comments([l0 EXCEPT !.used = <<>>], DefaultUnit))

\* next_unit
next_unit(l) == parse_unit(l)

\* is_header without the test for a blank source
is_header_any(oru) == oru.k = "Ok" /\ is_singular(oru.unit._source)

\* is_header
is_header(oru) ==
    oru.k = "Ok" /\ is_singular(oru.unit._source) /\ is_blank(oru.unit._source)

\* LanguageRange::new(lang), else LanguageRange::from_unix(lang), else
\* LanguageRange::invariant(): the tags the parsers of locale_config accept
\* are taken to be the one-word tags; the invariant range is the empty tag
LanguageTags == {"cs", "de"}
LanguageRange_invariant == <<>>
LanguageRange_new(lang) ==
    IF Len(lang) = 1 /\ lang[1] \in LanguageTags THEN lang
    ELSE LanguageRange_invariant

\* header_lines with the first line of a key kept, not the last
RECURSIVE header_lines_first(_, _)
header_lines_first(ls, header) ==
    IF ls = <<>> THEN header
    ELSE LET line == Head(ls)
             cs == {i \in 1..Len(line) : line[i] = ":"}
         IN  IF cs = {} THEN header_lines_first(Tail(ls), header)
             ELSE LET n == CHOOSE i \in cs : \A j \in cs : i <= j
                      key == Trim(SubSeq(line, 1, n - 1))
                      val == Trim(SubSeq(line, n + 1, Len(line)))
                  IN  header_lines_first(Tail(ls),
                        IF \E e \in header : e[1] = key THEN header
                        ELSE MapInsert(header, key, val))

\* str::find(c): the first index of c in the line (0 for None)
str_find(line, c) ==
    IF \A i \in 1..Len(line) : line[i] # c THEN 0
    ELSE CHOOSE i \in 1..Len(line) : line[i] = c /\ \A k \in 1..(i - 1) : line[k] # c

\* one line of the header: key and value around the colon at index n, if any
header_line(header, line, n) ==
    IF n = 0 THEN header
    ELSE MapInsert(header, Trim(SubSeq(line, 1, n - 1)),
                   Trim(SubSeq(line, n + 1, Len(line))))

\* the loop of parse_po_header over the lines of the header's target
RECURSIVE header_lines(_, _)
header_lines(ls, header) ==
    IF ls = <<>> THEN header
    ELSE header_lines(Tail(ls), header_line(header, Head(ls), str_find(Head(ls), ":")))

\* parse_po_header once the lines are read: ls holds the Language entry
parse_po_header_language(h, ls, language) ==
    [header |-> h,
     language |-> IF ls = {} THEN language
                  ELSE LanguageRange_new((CHOOSE e \in ls : TRUE)[2])]

\* parse_po_header once the header mapping h is built
parse_po_header_read(h, language) ==
    parse_po_header_language(h, {e \in h : e[1] = <<"Language">>}, language)

\* parse_po_header: the header mapping and the target language
parse_po_header(oru, header, language) ==
    IF oru.k # "Ok" THEN [header |-> header, language |-> language]
    ELSE parse_po_header_read(
             header_lines(Split(singular_or_empty(oru.unit._target), {"LF"}), header),
             language)

----------------------------------------------------------------------------
(* Operations of the reader *)

MaxCalls == 4

\* PoReader::new: assemble the first item; if it is the header, read the
\* header and assemble the item after it
PoReader_new ==
    /\ phase = "source"
    /\ \E r1 \in {next_unit(_lines)} :
         \E hd \in {is_header(r1.item)} :
           \E h \in {parse_po_header(r1.item, _header, _target_language)} :
             \E r2 \in {IF hd THEN next_unit(r1.l) ELSE r1} :
               /\ _lines' = r2.l
               /\ _next_unit' = r2.item
               /\ _header' = IF hd THEN h.header ELSE _header
               /\ _target_language' = IF hd THEN h.language ELSE _target_language
               /\ assembled' = IF hd THEN <<r1.item, r2.item>> ELSE <<r1.item>>
               /\ phase' = IF "Panic" \in {r1.item.k, r2.item.k}
                           THEN "panicked" ELSE "reader"
    /\ UNCHANGED <<blocks, input, yielded>>

\* PoReader::next without the early return
PoReader_next_unguarded ==
    /\ phase = "reader"
    /\ Len(yielded) < MaxCalls
    /\ \E r \in {next_unit(_lines)} :
           /\ _lines' = r.l
           /\ _next_unit' = r.item
           /\ assembled' = Append(assembled, r.item)
           /\ yielded' = Append(yielded, IF _next_unit.k = "None" THEN NoItem
                                         ELSE _next_unit)
           /\ phase' = IF r.item.k = "Panic" THEN "panicked" ELSE "reader"
    /\ UNCHANGED <<blocks, input, _header, _target_language>>

\* PoReader::next with two entries assembled for each one returned
PoReader_next_two_ahead ==
    /\ phase = "reader"
    /\ Len(yielded) < MaxCalls
    /\ IF _next_unit.k = "None"
       THEN /\ yielded' = Append(yielded, NoItem)
            /\ UNCHANGED <<_lines, _next_unit, assembled, phase>>
       ELSE \E r \in {next_unit(_lines)} :
              \E r2 \in {next_unit(r.l)} :
                /\ _lines' = r2.l
                /\ _next_unit' = r2.item
                /\ assembled' = assembled \o <<r.item, r2.item>>
                /\ yielded' = Append(yielded, _next_unit)
                /\ phase' = IF "Panic" \in {r.item.k, r2.item.k}
                            THEN "panicked" ELSE "reader"
    /\ UNCHANGED <<blocks, input, _header, _target_language>>

\* PoReader::next: nothing once the read-ahead is empty; otherwise assemble
\* the item after the read-ahead and return the read-ahead
PoReader_next ==
    /\ phase = "reader"
    /\ Len(yielded) < MaxCalls
    /\ IF _next_unit.k = "None"
       THEN /\ yielded' = Append(yielded, NoItem)
            /\ UNCHANGED <<_lines, _next_unit, assembled, phase>>
       ELSE \E r \in {next_unit(_lines)} :
                /\ _lines' = r.l
                /\ _next_unit' = r.item
                /\ assembled' = Append(assembled, r.item)
                /\ yielded' = Append(yielded, _next_unit)
                /\ phase' = IF r.item.k = "Panic" THEN "panicked" ELSE "reader"
    /\ UNCHANGED <<blocks, input, _header, _target_language>>

Next == PoReader_new \/ PoReader_next

----------------------------------------------------------------------------
(* Inputs *)

MaxBlocks == 2

\* the markers of tag and continuation lines
Plain == <<>>
Obsolete == <<"#", "~", SP>>
Previous == <<"#", "|", SP>>

TagLine(marker, tag, body) == Line(marker \o <<tag, SP, Q>> \o body \o <<Q>>)
ContLine(marker, body) == Line(marker \o <<Q>> \o body \o <<Q>>)
CommentLine(kind, text) == Line(<<"#">> \o kind \o <<SP>> \o text)

\* the entries of a catalogue such as SAMPLE_PO, and the lines of malformed
\* ones, each as a block of lines
SimpleEntry == <<TagLine(Plain, "msgid", <<"a">>), TagLine(Plain, "msgstr", <<"b">>)>>
UntranslatedEntry == <<TagLine(Plain, "msgid", <<"u">>), TagLine(Plain, "msgstr", <<>>)>>
ObsoleteEntry ==
    <<TagLine(Obsolete, "msgid", <<"o">>), TagLine(Obsolete, "msgstr", <<"b">>),
      ContLine(Obsolete, <<"c">>)>>
ChangedEntry ==
    <<CommentLine(<<".">>, <<"dev">>),
      CommentLine(<<":">>, <<"x.c", SP, SP, "y.c">>),
      CommentLine(<<",">>, <<"c-format", ",", SP, "fuzzy">>),
      TagLine(Previous, "msgctxt", <<"q">>),
      TagLine(Previous, "msgid", <<"p">>),
      TagLine(Plain, "msgctxt", <<"c">>),
      TagLine(Plain, "msgid", <<"a">>),
      TagLine(Plain, "msgstr", <<"b", BS, "n">>),
      ContLine(Plain, <<"c">>)>>
HeaderEntry ==
    <<TagLine(Plain, "msgid", <<>>), TagLine(Plain, "msgstr", <<>>),
      ContLine(Plain, <<"Language", ":", SP, "cs", BS, "n">>),
      ContLine(Plain, <<"Charset", BS, "n">>),
      ContLine(Plain, <<"Team", ":", SP, "a", ":", "b", BS, "n">>),
      ContLine(Plain, <<SP, "Language", SP, ":", "de", SP, BS, "n">>)>>
BlankSourceEntry ==
    <<TagLine(Plain, "msgid", <<>>),
      TagLine(Plain, "msgstr", <<"Language", ":", "cs", SP, "de">>)>>
MixedEntry == <<TagLine(Obsolete, "msgid", <<"a">>), TagLine(Plain, "msgstr", <<"b">>)>>
SplitEntry ==
    <<TagLine(Plain, "msgid", <<"a">>), Line(<<>>), TagLine(Plain, "msgstr", <<"b">>)>>
PluralEntry ==
    <<TagLine(Plain, "msgid", <<"a">>), TagLine(Plain, "msgid_plural", <<"as">>),
      TagLine(Plain, "msgstr[0]", <<"b">>), TagLine(Plain, "msgstr[1]", <<"bs">>)>>

BlockPool ==
    {SimpleEntry, UntranslatedEntry, ObsoleteEntry, ChangedEntry, HeaderEntry,
     BlankSourceEntry, MixedEntry, PluralEntry, SplitEntry,
     <<TagLine(Plain, "msgctxt", <<"c">>)>>,
     <<TagLine(Plain, "msgid", <<"a">>)>>,
     <<TagLine(Plain, "msgstr", <<"b">>)>>,
     <<ContLine(Plain, <<"c">>)>>,
     <<ContLine(Obsolete, <<"c">>)>>,
     <<CommentLine(<<",">>, <<"fuzzy">>)>>,
     <<CommentLine(<<>>, <<"note">>)>>,
     <<CommentLine(<<>>, <<Q, "note", Q>>)>>,
     <<Line(<<"x">>)>>,
     <<Line(<<SP>>)>>,
     <<ReadFailure>>}

RECURSIVE Flatten(_)
Flatten(bs) == IF bs = <<>> THEN <<>> ELSE Head(bs) \o Flatten(Tail(bs))

Files == UNION {[1..k -> BlockPool] : k \in 0..MaxBlocks}

\* before PoReader::new: a file, and a line source that has read nothing
Init ==
    /\ blocks \in Files
    /\ input = Flatten(blocks)
    /\ _lines = LineIter_new
    /\ _next_unit = NoItem
    /\ _header = {}
    /\ _target_language = LanguageRange_invariant
    /\ phase = "source"
    /\ assembled = <<>>
    /\ yielded = <<>>

MaxBody == 4

\* the texts over the characters of the escape sequences and one other
EscapeAlphabet == {BS, "n", "t", Q, "a"}
Bodies == UNION {[1..k -> EscapeAlphabet] : k \in 0..MaxBody}

\* a file of one entry whose msgstr holds one of the texts
InitUnescape ==
    /\ \E body \in Bodies :
           blocks = <<<<TagLine(Plain, "msgid", <<"a">>),
                        TagLine(Plain, "msgstr", body)>>>>
    /\ input = Flatten(blocks)
    /\ _lines = LineIter_new
    /\ _next_unit = NoItem
    /\ _header = {}
    /\ _target_language = LanguageRange_invariant
    /\ phase = "source"
    /\ assembled = <<>>
    /\ yielded = <<>>

\* a file of one entry whose msgstr is followed by one continuation line,
\* which holds one of the texts and carries the marker of the msgstr or not
InitConcat ==
    /\ \E body \in Bodies, marker \in {Plain, Obsolete} :
           blocks = <<<<TagLine(Plain, "msgid", <<"a">>),
                        TagLine(Plain, "msgstr", <<"b", BS, "n">>),
                        ContLine(marker, body)>>>>
    /\ input = Flatten(blocks)
    /\ _lines = LineIter_new
    /\ _next_unit = NoItem
    /\ _header = {}
    /\ _target_language = LanguageRange_invariant
    /\ phase = "source"
    /\ assembled = <<>>
    /\ yielded = <<>>

SpecConcat == InitConcat /\ [][Next]_vars

\* the heads, the tags and the ends of the lines given to the classifier
LineHeads ==
    {<<>>, <<"#">>, <<"#", "~">>, <<"#", "|">>, <<"#", "~", "|">>,
     <<"#", ":">>, <<"#", ".">>, <<"#", ",">>}
LineTags ==
    {<<>>, <<"msgctxt">>, <<"msgid">>, <<"msgid_plural">>, <<"msgif_plural">>,
     <<"msgstr">>, <<"msgstr[0]">>, <<"msgstr[5]">>, <<"msgstr[6]">>, <<"word">>}
LineEnds == {<<Q, "t", Q>>, <<Q, "t">>, <<"t">>, <<>>}

\* a file of one line: a head, a tag and an end, with a space between them
InitClassify ==
    /\ \E h \in LineHeads, g \in LineTags, e \in LineEnds :
           blocks = <<<<Line(h \o <<SP>> \o g \o <<SP>> \o e)>>>>
    /\ input = Flatten(blocks)
    /\ _lines = LineIter_new
    /\ _next_unit = NoItem
    /\ _header = {}
    /\ _target_language = LanguageRange_invariant
    /\ phase = "source"
    /\ assembled = <<>>
    /\ yielded = <<>>

SpecClassify == InitClassify /\ [][Next]_vars

\* the lines that may stand before the msgctxt and msgid of an entry with
\* previous values: none, #| or #~| msgctxt; none, #| or #~| msgid, alone,
\* with a continuation line, with msgid_plural, or msgid_plural alone
ObsoletePrevious == <<"#", "~", "|", SP>>
PreviousContexts ==
    {<<>>} \cup {<<TagLine(m, "msgctxt", <<"q">>)>> : m \in {Previous, ObsoletePrevious}}
PreviousSources ==
    {<<>>} \cup UNION {{<<TagLine(m, "msgid", <<"p">>)>>,
                        <<TagLine(m, "msgid", <<"p">>), ContLine(m, <<"r">>)>>,
                        <<TagLine(m, "msgid", <<"p">>), TagLine(m, "msgid_plural", <<"ps">>)>>,
                        <<TagLine(m, "msgid_plural", <<"ps">>)>>} :
                       m \in {Previous, ObsoletePrevious}}
Contexts ==
    {<<>>} \cup {<<TagLine(m, "msgctxt", <<"c">>)>> : m \in {Plain, Obsolete}}
Translations ==
    {<<TagLine(m, "msgid", <<"a">>), TagLine(m, "msgstr", <<"b">>)>> :
        m \in {Plain, Obsolete}}

\* a file of one entry: previous values, a context and a translation, the
\* previous values before the context or after it
InitPrevious ==
    /\ \E pc \in PreviousContexts, ps \in PreviousSources,
          cx \in Contexts, tr \in Translations :
           \/ blocks = <<pc \o ps \o cx \o tr>>
           \/ blocks = <<cx \o pc \o ps \o tr>>
    /\ input = Flatten(blocks)
    /\ _lines = LineIter_new
    /\ _next_unit = NoItem
    /\ _header = {}
    /\ _target_language = LanguageRange_invariant
    /\ phase = "source"
    /\ assembled = <<>>
    /\ yielded = <<>>

SpecPrevious == InitPrevious /\ [][Next]_vars

\* the lines of which the files of SpecLines are made: comments, tag and
\* continuation lines under several markers, a malformed line, a blank line
\* and a line that fails to be read
MaxLines == 4
LinePool ==
    {CommentLine(<<".">>, <<"dev">>),
     CommentLine(<<>>, <<Q, "note", Q>>),
     TagLine(Previous, "msgid", <<"p">>),
     TagLine(Plain, "msgid", <<"a">>),
     TagLine(Plain, "msgstr", <<"b">>),
     TagLine(Obsolete, "msgid", <<"o">>),
     ContLine(Plain, <<"c">>),
     Line(<<"x">>),
     Line(<<SP>>),
     ReadFailure}

\* a file of up to MaxLines lines, each of them any line of the pool
InitLines ==
    /\ \E n \in 0..MaxLines : \E ls \in [1..n -> LinePool] : blocks = <<ls>>
    /\ input = Flatten(blocks)
    /\ _lines = LineIter_new
    /\ _next_unit = NoItem
    /\ _header = {}
    /\ _target_language = LanguageRange_invariant
    /\ phase = "source"
    /\ assembled = <<>>
    /\ yielded = <<>>

SpecLines == InitLines /\ [][Next]_vars

SpecUnescape == InitUnescape /\ [][Next]_vars

Spec == Init /\ [][Next]_vars

----------------------------------------------------------------------------
(* What the claims speak of *)

\* the kind of line i of the input, by the classifier alone
KindAt(i) ==
    IF input[i].ok THEN parse_po_line(input[i].text, 0).k ELSE "Io"

\* line i of the input as the classifier sees it
TokenAt(i) == parse_po_line(input[i].text, 0)

SetOf(s) == {s[i] : i \in 1..Len(s)}
Last(s) == s[Len(s)]
MinOf(S) == CHOOSE x \in S : \A y \in S : x <= y
MaxOf(S) == CHOOSE x \in S : \A y \in S : y <= x

\* the tag and continuation lines an assembly consumed
TagLinesOf(item) ==
    {i \in SetOf(item.used) : KindAt(i) \in {"Message", "Continuation"}}

\* the raw line starts with the obsolete marker #~
ObsoleteMarked(i) ==
    LET line == input[i].text
        a == SkipWs(line, 1)
    IN  a + 1 <= Len(line) /\ line[a] = "#" /\ line[a + 1] = "~"

\* the first non-blank line after line i (0 when the input ends)
FollowingLine(i) ==
    LET js == {j \in (i + 1)..Len(input) : KindAt(j) # "Blank"}
    IN  IF js = {} THEN 0 ELSE MinOf(js)

\* the number LineIter gives to line i: the lines read before it and itself,
\* read failures not counted
LineNumber(i) == Cardinality({j \in 1..i : input[j].ok})

\* the input index where block b of the file ends
RECURSIVE BlockEnd(_)
BlockEnd(b) == IF b = 0 THEN 0 ELSE BlockEnd(b - 1) + Len(blocks[b])

----------------------------------------------------------------------------
(* C1 *)

\* the blocks that are well formed singular entries, comments, a blank line
EntryBlocks ==
    {SimpleEntry, UntranslatedEntry, ObsoleteEntry, ChangedEntry, HeaderEntry,
     BlankSourceEntry}
CommentBlocks ==
    {<<CommentLine(<<",">>, <<"fuzzy">>)>>,
     <<CommentLine(<<>>, <<"note">>)>>,
     <<CommentLine(<<>>, <<Q, "note", Q>>)>>}
BlankBlock == <<Line(<<SP>>)>>

WellFormedFile ==
    \A b \in 1..Len(blocks) :
        blocks[b] \in EntryBlocks \cup CommentBlocks \cup {BlankBlock}

\* the indices of the entry blocks, in file order
EntriesOfFile == SelectSeq([b \in 1..Len(blocks) |-> b],
                           LAMBDA b : blocks[b] \in EntryBlocks)

\* the entries the reader is to yield: all but a leading header entry
ContentEntries ==
    IF EntriesOfFile # <<>>
          /\ blocks[EntriesOfFile[1]] \in {HeaderEntry, BlankSourceEntry}
    THEN Tail(EntriesOfFile) ELSE EntriesOfFile

\* the lines of the entry that block b ends: the non-blank lines after the
\* entry before it, up to the end of block b
LinesOfEntry(b) ==
    LET before == {c \in 1..(b - 1) : blocks[c] \in EntryBlocks}
        from == IF before = {} THEN 1 ELSE BlockEnd(MaxOf(before)) + 1
    IN  {i \in from..BlockEnd(b) : KindAt(i) # "Blank"}

\* C1: on a file of well formed singular entries the reader yields exactly
\* one Ok unit per entry other than a leading header entry, in file order,
\* each made of the lines of its entry, and None after them.
C1_OneUnitPerEntry ==
    WellFormedFile =>
        \A k \in 1..Len(yielded) :
            IF k <= Len(ContentEntries)
            THEN /\ yielded[k].k = "Ok"
                 /\ SetOf(yielded[k].used) = LinesOfEntry(ContentEntries[k])
            ELSE yielded[k].k = "None"

\* C1 without the comments that hold nothing but a quoted text
C1_Unquoted ==
    (\A b \in 1..Len(blocks) : blocks[b] # <<CommentLine(<<>>, <<Q, "note", Q>>)>>)
        => C1_OneUnitPerEntry

----------------------------------------------------------------------------
(* C2 *)

\* the items of a history that are units
UnitsOf(items) == {i \in 1..Len(items) : items[i].k = "Ok"}

\* the comments of the entry of a unit: the comment lines that run up to its
\* first tag line, blank lines aside
CommentsOfEntry(item) ==
    LET first == MinOf(TagLinesOf(item))
    IN  {i \in 1..(first - 1) :
            \A j \in i..(first - 1) : KindAt(j) \in {"Comment", "Blank"}}
        \ {i \in 1..Len(input) : KindAt(i) = "Blank"}

\* the text lists the flag: it stands between two commas (or ends of the
\* text) with nothing but whitespace around it
FlagListed(text, flag) ==
    \E j \in 1..Len(text) :
        /\ text[j] = flag
        /\ LET commas == {c \in 1..Len(text) : text[c] = ","}
               a == MaxOf({0} \cup {c \in commas : c < j})
               b == MinOf({Len(text) + 1} \cup {c \in commas : c > j})
           IN  \A k \in ((a + 1)..(b - 1)) \ {j} : IsWhitespace(text[k])

IsFuzzy(item) ==
    \E i \in CommentsOfEntry(item) :
        TokenAt(i).t = <<",">> /\ FlagListed(TokenAt(i).s, "fuzzy")

\* C2: a yielded unit is NeedsWork if a ','-comment of its entry lists the
\* flag fuzzy, whatever its target; without the flag it is Final if its
\* target is not blank and Empty if it is.
InvC2_StateDerivation ==
    \A k \in UnitsOf(yielded) :
        yielded[k].unit._state =
            IF IsFuzzy(yielded[k]) THEN "NeedsWork"
            ELSE IF ~is_blank(yielded[k].unit._target) THEN "Final"
            ELSE "Empty"

\* a unit with the flag fuzzy and a target, and a unit without the flag and
\* with a target, have been yielded: the first NeedsWork, the second Final
WitnessC2 ==
    /\ \E k \in UnitsOf(yielded) :
           /\ IsFuzzy(yielded[k])
           /\ ~is_blank(yielded[k].unit._target)
           /\ yielded[k].unit._state = "NeedsWork"
    /\ \E k \in UnitsOf(yielded) :
           /\ ~IsFuzzy(yielded[k])
           /\ ~is_blank(yielded[k].unit._target)
           /\ yielded[k].unit._state = "Final"

----------------------------------------------------------------------------
(* C3 *)

\* C3: once next() has yielded an Err, every later call yields None.
C3_NothingAfterErr ==
    \A i, j \in 1..Len(yielded) :
        i < j /\ yielded[i].k = "Err" => yielded[j].k = "None"

----------------------------------------------------------------------------
(* C4 *)

\* a step is a call of next() that returned an item
Returned(k) == Len(yielded') = Len(yielded) + 1 /\ Last(yielded').k = k
ReturnedItem == Returned("Ok") \/ Returned("Err")

\* C4: the calls of next() end with None after finitely many calls.  A call
\* that returns an item and leaves the reader as it found it is repeated by
\* every later call, so each such call must change the line source or the
\* read-ahead.
C4_Terminates ==
    [][ReturnedItem => <<_lines, _next_unit>>' # <<_lines, _next_unit>>]_vars

\* the other half of C4: None is returned only once the lines have run out
C4_NoneOnlyAtEnd ==
    \A k \in 1..Len(yielded) :
        yielded[k].k = "None" =>
            _lines.pos = Len(input) /\ _lines.has /\ _lines.item.k = "None"

----------------------------------------------------------------------------
(* C5 *)

\* C5: once next() has returned None, every later call returns None, and
\* neither reads the line source nor assembles anything.
ThmC5_NoneForEver ==
    [][(yielded # <<>> /\ Last(yielded).k = "None")
          => /\ Returned("None")
             /\ _lines' = _lines
             /\ assembled' = assembled
             /\ _next_unit' = _next_unit]_vars

\* units were yielded, then None, then None again
WitnessC5 ==
    /\ Len(yielded) >= 3
    /\ yielded[1].k = "Ok"
    /\ yielded[Len(yielded) - 1].k = "None"
    /\ yielded[Len(yielded)].k = "None"

----------------------------------------------------------------------------
(* C6 *)

\* the assembly consumed a line with this tag
Got(item, tag) ==
    \E i \in TagLinesOf(item) : TokenAt(i).k = "Message" /\ TokenAt(i).t = <<tag>>

\* the assembly consumed a msgid block and no msgstr
MsgidOnly(item) == Got(item, "msgid") /\ ~Got(item, "msgstr")

\* the first non-blank line after the tag and continuation lines consumed
AfterTags(item) == FollowingLine(MaxOf(TagLinesOf(item)))

----------------------------------------------------------------------------
(* C7 *)

\* the first item assembled is a unit with a blank singular source
FirstIsHeader ==
    /\ assembled[1].k = "Ok"
    /\ assembled[1].unit._source.k = "Singular"
    /\ assembled[1].unit._source.s = <<>>

\* C7: PoReader::new keeps the first item assembled back as the header if
\* and only if it is a unit with a blank singular source; the items yielded
\* are the items assembled after it, in order and unchanged, so a later
\* unit with a blank source is yielded like any other; in every other case
\* the items yielded are the items assembled, from the first.
InvC7_HeaderOnlyFirst ==
    phase = "reader" =>
        LET off == IF FirstIsHeader THEN 1 ELSE 0
        IN  /\ Len(assembled) >= 1 + off
            /\ yielded = <<>> => Len(assembled) = 1 + off
            /\ _next_unit = Last(assembled)
            /\ \A k \in 1..Len(yielded) :
                   yielded[k] =
                       IF k + off <= Len(assembled)
                             /\ assembled[k + off].k # "None"
                       THEN assembled[k + off] ELSE NoItem

\* a header was kept back and a later unit with a blank source was yielded
WitnessC7 ==
    /\ phase = "reader"
    /\ FirstIsHeader
    /\ \E k \in UnitsOf(yielded) : yielded[k].unit._source = Singular(<<>>)

----------------------------------------------------------------------------
(* C8 *)

HasColon(line) == \E i \in 1..Len(line) : line[i] = ":"
FirstColon(line) == MinOf({i \in 1..Len(line) : line[i] = ":"})
KeyOf(line) == Trim(SubSeq(line, 1, FirstColon(line) - 1))
ValueOf(line) == Trim(SubSeq(line, FirstColon(line) + 1, Len(line)))

\* the mapping a header stands for: of the lines with a colon, the last one
\* of each key
MappingOf(text) ==
    LET ls == Split(text, {"LF"})
        keep == {i \in 1..Len(ls) :
                    /\ HasColon(ls[i])
                    /\ \A j \in (i + 1)..Len(ls) :
                           HasColon(ls[j]) => KeyOf(ls[j]) # KeyOf(ls[i])}
    IN  {<<KeyOf(ls[i]), ValueOf(ls[i])>> : i \in keep}

HeaderMapping ==
    IF FirstIsHeader /\ assembled[1].unit._target.k = "Singular"
    THEN MappingOf(assembled[1].unit._target.s) ELSE {}

HeaderLanguage ==
    LET ls == {e \in HeaderMapping : e[1] = <<"Language">>}
    IN  IF ls = {} THEN LanguageRange_invariant
        ELSE LanguageRange_new((CHOOSE e \in ls : TRUE)[2])

\* C8: as long as the reader lives, target_language() is the tag the header
\* gives: the value of the last 'Language' line of the header's target,
\* each line split at its first colon and both sides trimmed; it is the
\* invariant tag without a header, without the key, or when the value does
\* not parse.  No call of next() changes it.
InvC8_TargetLanguage ==
    phase = "reader" =>
        /\ _target_language = HeaderLanguage
        /\ _header = HeaderMapping

\* the header named the language twice, the later line won, and next() was
\* called
WitnessC8 ==
    /\ phase = "reader"
    /\ FirstIsHeader
    /\ <<<<"Language">>, <<"de">>>> \in _header
    /\ _target_language = <<"de">>
    /\ Len(yielded) >= 2

----------------------------------------------------------------------------
(* C9 *)

FirstTagLine(item) ==
    MinOf({i \in TagLinesOf(item) : KindAt(i) = "Message"})

\* C9: a yielded unit is obsolete exactly if its first tag line carries #~,
\* and each tag or continuation line it consumed carries #~ exactly if the
\* unit is obsolete; an entry whose next required tag line (msgid, then
\* msgstr) differs in that from its first tag line gives a Parse error and
\* no unit.
InvC9_ObsoleteUniform ==
    /\ \A k \in UnitsOf(yielded) :
           /\ yielded[k].unit._obsolete = ObsoleteMarked(FirstTagLine(yielded[k]))
           /\ \A i \in TagLinesOf(yielded[k]) :
                  ObsoleteMarked(i) = yielded[k].unit._obsolete
    /\ \A k \in 1..Len(assembled) :
           LET it == assembled[k]
               f == AfterTags(it)
           IN  (/\ TagLinesOf(it) # {}
                /\ ~Got(it, "msgstr")
                /\ f # 0
                /\ KindAt(f) = "Message"
                /\ TokenAt(f).t = IF Got(it, "msgid") THEN <<"msgstr">>
                                  ELSE <<"msgid">>
                /\ ObsoleteMarked(f) # ObsoleteMarked(FirstTagLine(it)))
               => it.k = "Err" /\ it.err.k = "Parse"

\* an obsolete unit was yielded, and so was the error for a msgstr that
\* differs from its msgid
WitnessC9 ==
    /\ \E k \in UnitsOf(yielded) :
           yielded[k].unit._obsolete /\ Cardinality(TagLinesOf(yielded[k])) >= 3
    /\ \E k \in 1..Len(yielded) :
           /\ yielded[k].k = "Err"
           /\ MsgidOnly(yielded[k])
           /\ TokenAt(AfterTags(yielded[k])).t = <<"msgstr">>
           /\ ObsoleteMarked(FirstTagLine(yielded[k]))
           /\ ~ObsoleteMarked(AfterTags(yielded[k]))

----------------------------------------------------------------------------
(* C10 *)

\* every escape sequence of the text replaced by its character, from the
\* left, the other characters kept
RECURSIVE UnescapeAll(_)
UnescapeAll(s) ==
    IF s = <<>> THEN <<>>
    ELSE IF UNESCAPE_RE(s, 1)
         THEN <<UNESCAPE_MAP(s[2])>> \o UnescapeAll(SubSeq(s, 3, Len(s)))
         ELSE <<s[1]>> \o UnescapeAll(Tail(s))

\* the quoted text of line i
BodyAt(i) == MESSAGE_RE(input[i].text).g3

\* the lines of the target of a unit: its msgstr line and the lines after
TargetLines(item) ==
    LET tl == TagLinesOf(item)
        m == MinOf({i \in tl : TokenAt(i).k = "Message" /\ TokenAt(i).t = <<"msgstr">>})
    IN  {i \in tl : i >= m}

RECURSIVE UnescapedBodies(_)
UnescapedBodies(S) ==
    IF S = {} THEN <<>>
    ELSE UnescapeAll(BodyAt(MinOf(S))) \o UnescapedBodies(S \ {MinOf(S)})

\* C10: the text of a tag or continuation line is its quoted text with each
\* of the escape sequences \n, \t, \r, \" and \\ replaced by its character,
\* however many there are, and every other character kept: so the target of
\* a yielded unit is the unescaped texts of its lines, one after another.
C10_UnescapesAll ==
    \A k \in UnitsOf(yielded) :
        yielded[k].unit._target.s = UnescapedBodies(TargetLines(yielded[k]))

\* C10 for the texts that hold at most one escape sequence
C10_SingleEscape ==
    (\A i \in 1..Len(input) :
        input[i].ok =>
            Cardinality({j \in 1..Len(input[i].text) :
                            UNESCAPE_RE(input[i].text, j)}) <= 1)
        => C10_UnescapesAll

----------------------------------------------------------------------------
(* C11 *)

\* the tag line with the given tag among the lines an assembly consumed
MsgLineOf(item, tag) ==
    MinOf({i \in TagLinesOf(item) :
              TokenAt(i).k = "Message" /\ TokenAt(i).t = <<tag>>})

\* tag line i and the continuation lines after it that carry its marker, up
\* to the first line that is neither blank nor such a continuation
MessageRun(i) ==
    {i} \cup {j \in (i + 1)..Len(input) :
                 /\ KindAt(j) = "Continuation"
                 /\ \A m \in (i + 1)..j :
                        \/ KindAt(m) = "Blank"
                        \/ KindAt(m) = "Continuation" /\ TokenAt(m).p = TokenAt(i).p}

\* the texts of the lines of S, in order, each with its leftmost escape
\* sequence replaced
RECURSIVE ReplacedBodies(_)
ReplacedBodies(S) ==
    IF S = {} THEN <<>>
    ELSE Unescape(BodyAt(MinOf(S))) \o ReplacedBodies(S \ {MinOf(S)})

\* C11: the source and the target of a yielded unit are the unescaped texts
\* of the msgid line, the msgstr line, and of the continuation lines with
\* the marker of that line which follow it, one after another; a
\* continuation line with another marker ends the run.
C11_Concatenation ==
    \A k \in UnitsOf(yielded) :
        /\ yielded[k].unit._source.s =
               UnescapedBodies(MessageRun(MsgLineOf(yielded[k], "msgid")))
        /\ yielded[k].unit._target.s =
               UnescapedBodies(MessageRun(MsgLineOf(yielded[k], "msgstr")))

\* C11 with each line unescaped as parse_po_line unescapes it
C11_ConcatenationOfReplaced ==
    \A k \in UnitsOf(yielded) :
        /\ yielded[k].unit._source.s =
               ReplacedBodies(MessageRun(MsgLineOf(yielded[k], "msgid")))
        /\ yielded[k].unit._target.s =
               ReplacedBodies(MessageRun(MsgLineOf(yielded[k], "msgstr")))

----------------------------------------------------------------------------
(* C12 *)

\* line i of the input is written as a msgid_plural tag line
PluralTagLine(i) ==
    /\ input[i].ok
    /\ Len(input[i].text) >= 4
    /\ SubSeq(input[i].text, 1, 3) = <<"msgid_plural", SP, Q>>
    /\ Last(input[i].text) = Q

\* the first non-blank line after the msgid line of an assembly and its
\* continuation lines
AfterMsgid(item) == FollowingLine(MaxOf(MessageRun(MsgLineOf(item, "msgid"))))

\* C12: an entry whose msgid is followed by a msgid_plural tag line is
\* assembled with the source Plural {One: the msgid text, Other: the
\* msgid_plural text}.
C12_PluralMode ==
    \A k \in 1..Len(assembled) :
        (/\ Got(assembled[k], "msgid")
         /\ AfterMsgid(assembled[k]) # 0
         /\ PluralTagLine(AfterMsgid(assembled[k])))
        => /\ assembled[k].k = "Ok"
           /\ assembled[k].unit._source =
                  Plural({<<"One", BodyAt(MsgLineOf(assembled[k], "msgid"))>>,
                          <<"Other",
                            SubSeq(input[AfterMsgid(assembled[k])].text, 4,
                                   Len(input[AfterMsgid(assembled[k])].text) - 1)>>})

\* what the reader makes of such an entry: the msgid_plural line is
\* malformed to it, and the assembly ends in that line's Parse error
C12_PluralLineMalformed ==
    \A k \in 1..Len(assembled) :
        (/\ Got(assembled[k], "msgid")
         /\ AfterMsgid(assembled[k]) # 0
         /\ PluralTagLine(AfterMsgid(assembled[k])))
        => /\ assembled[k].k = "Err"
           /\ assembled[k].err =
                  ParseError(LineNumber(AfterMsgid(assembled[k])),
                             Some(input[AfterMsgid(assembled[k])].text), <<>>)

\* no unit has a plural source or a plural target
C12_NeverPlural ==
    \A k \in UnitsOf(assembled) :
        /\ ~is_plural(assembled[k].unit._source)
        /\ ~is_plural(assembled[k].unit._prev_source)
        /\ ~is_plural(assembled[k].unit._target)

----------------------------------------------------------------------------
(* C13 *)

\* C13: no unit the reader assembles, the header it consumes included, has
\* the source Empty, and no assertion of parse_unit fails.
InvC13_SourceNeverEmpty ==
    /\ phase # "panicked"
    /\ \A k \in 1..Len(assembled) :
           /\ assembled[k].k # "Panic"
           /\ assembled[k].k = "Ok" => ~is_empty(assembled[k].unit._source)

\* a unit was assembled, and an entry without msgid was met and gave the
\* error that names msgid
WitnessC13 ==
    /\ \E k \in UnitsOf(assembled) : is_singular(assembled[k].unit._source)
    /\ \E k \in 1..Len(yielded) :
           /\ yielded[k].k = "Err"
           /\ yielded[k].err.k = "Parse"
           /\ yielded[k].err.exp = <<"msgid">>

----------------------------------------------------------------------------
(* C15 *)

\* C15: the lines a yielded unit is made of lie in one run of non-blank
\* lines: no blank line stands between two of them.
C15_OneBlock ==
    \A k \in UnitsOf(yielded) :
        \A i \in MinOf(SetOf(yielded[k].used))..MaxOf(SetOf(yielded[k].used)) :
            KindAt(i) # "Blank"

\* what holds instead: the lines of a unit are all the lines from its first
\* to its last but the blank ones
C15_BlanksSkipped ==
    \A k \in UnitsOf(yielded) :
        SetOf(yielded[k].used) =
            {i \in MinOf(SetOf(yielded[k].used))..MaxOf(SetOf(yielded[k].used)) :
                KindAt(i) # "Blank"}

----------------------------------------------------------------------------
(* C16 *)

\* everything the line source produces from state l on, each item with the
\* index of its line in the input
RECURSIVE Produced(_)
Produced(l) ==
    LET r == LineIter_next(l)
    IN  IF r.item.k = "None" THEN <<>>
        ELSE <<[pos |-> r.l.pos, item |-> r.item]>> \o Produced(r.l)

\* no line of the input up to line i failed to be read
ReadUpTo(i) == \A j \in 1..i : input[j].ok

\* C16: while no read has failed, each classified line the line source
\* produces carries the 1-based index of its line in the input, blank lines
\* counted, and a malformed line is Err(Parse(n, Some(raw line), [])) with n
\* that index; the reader passes that error on as it is.
InvC16_LineNumbers ==
    /\ \A e \in SetOf(Produced(LineIter_new)) :
           ReadUpTo(e.pos) =>
               /\ e.item.n = e.pos
               /\ e.item.k = KindAt(e.pos)
               /\ e.item.k = "Syntax" =>
                      ErrorOf(e.item) = ParseError(e.pos, Some(input[e.pos].text), <<>>)
    /\ (_lines.has /\ _lines.item.k # "None" /\ ReadUpTo(_lines.pos))
           => _lines.item.n = _lines.pos
    /\ \A k \in 1..Len(assembled) :
           (/\ assembled[k].k = "Err"
            /\ assembled[k].used # <<>>
            /\ KindAt(Last(assembled[k].used)) = "Syntax"
            /\ ReadUpTo(Last(assembled[k].used)))
           => assembled[k].err =
                  ParseError(Last(assembled[k].used),
                             Some(input[Last(assembled[k].used)].text), <<>>)

\* a malformed line that stands after a blank line was yielded as the Parse
\* error with its index in the input
WitnessC16 ==
    \E k \in 1..Len(yielded) :
        /\ yielded[k].k = "Err"
        /\ yielded[k].used # <<>>
        /\ KindAt(Last(yielded[k].used)) = "Syntax"
        /\ \E j \in 1..(Last(yielded[k].used) - 1) : KindAt(j) = "Blank"
        /\ yielded[k].err = ParseError(Last(yielded[k].used),
                                       Some(input[Last(yielded[k].used)].text), <<>>)

----------------------------------------------------------------------------
(* C17 *)

\* the assembly consumed the msgid and the msgstr of an entry
CompleteEntry(item) == Got(item, "msgid") /\ Got(item, "msgstr")

\* C17: an entry that is complete, with its msgid and its msgstr read, is
\* assembled as an Ok unit, whatever stands on the line after it.
C17_CompleteEntryYielded ==
    \A k \in 1..Len(assembled) :
        CompleteEntry(assembled[k]) => assembled[k].k = "Ok"

\* what holds instead: the complete entry is lost, and the error of the
\* line after it stands in its place, exactly when that line is malformed
\* or fails to be read
C17_LostToFollowingError ==
    \A k \in 1..Len(assembled) :
        CompleteEntry(assembled[k]) =>
            IF /\ AfterTags(assembled[k]) # 0
               /\ KindAt(AfterTags(assembled[k])) \in {"Syntax", "Io"}
            THEN /\ assembled[k].k = "Err"
                 /\ Last(assembled[k].used) = AfterTags(assembled[k])
            ELSE assembled[k].k = "Ok"

----------------------------------------------------------------------------
(* C18 *)

\* the markers and the tags of the grammar
GrammarMarkers == {<<>>, <<"#", "~">>, <<"#", "|">>, <<"#", "~", "|">>}
GrammarTags ==
    {"msgctxt", "msgid", "msgid_plural", "msgstr",
     "msgstr[0]", "msgstr[1]", "msgstr[2]", "msgstr[3]", "msgstr[4]", "msgstr[5]"}

\* the line without its whitespace
NoWs(line) == SelectSeq(line, LAMBDA c : ~IsWhitespace(c))

\* the line is the head (a marker, or a marker and a tag) and a quoted text
HeadAndQuoted(line, head) ==
    /\ Len(NoWs(line)) >= Len(head) + 2
    /\ SubSeq(NoWs(line), 1, Len(head) + 1) = head \o <<Q>>
    /\ Last(NoWs(line)) = Q

\* the kind, the tag and the sub-kind the grammar gives to a non-blank line
GrammarToken(line) ==
    IF \E m \in GrammarMarkers, g \in GrammarTags : HeadAndQuoted(line, m \o <<g>>)
    THEN LET mg == CHOOSE mg \in GrammarMarkers \X GrammarTags :
                       HeadAndQuoted(line, mg[1] \o <<mg[2]>>)
         IN  [k |-> "Message",
              t |-> IF mg[1] # <<>> /\ Last(mg[1]) = "|" THEN <<"|", mg[2]>>
                    ELSE <<mg[2]>>]
    ELSE IF \E m \in GrammarMarkers : HeadAndQuoted(line, m)
    THEN [k |-> "Continuation", t |-> <<>>]
    ELSE IF NoWs(line)[1] = "#"
    THEN [k |-> "Comment",
          t |-> IF Len(NoWs(line)) >= 2 /\ line[SkipWs(line, 1) + 1] \in {":", ".", ","}
                THEN <<line[SkipWs(line, 1) + 1]>> ELSE <<" ">>]
    ELSE [k |-> "Syntax", t |-> <<>>]

\* the lines the reader has read so far, as the line source classified them
Classified ==
    {e \in SetOf(Produced(LineIter_new)) : e.pos <= _lines.pos /\ e.item.k # "Io"}

\* C18: parse_po_line gives each non-blank line the kind the grammar gives
\* it, a message tag with "|" before the name under a marker that ends in
\* "|", and a comment with its sub-kind.
C18_Classification ==
    \A e \in Classified :
        /\ e.item.k = GrammarToken(input[e.pos].text).k
        /\ e.item.t = GrammarToken(input[e.pos].text).t

\* the line starts with a # that a quote or a tag follows, or holds the tag
\* msgid_plural or msgif_plural
OffGrammar(line) ==
    \/ /\ Len(NoWs(line)) >= 2
       /\ NoWs(line)[1] = "#"
       /\ NoWs(line)[2] \in {Q} \cup GrammarTags \cup {"msgif_plural"}
    \/ \E i \in 1..Len(line) : line[i] \in {"msgid_plural", "msgif_plural"}

\* C18 for all the other lines
C18_OnGrammar ==
    \A e \in Classified :
        ~OffGrammar(input[e.pos].text) =>
            /\ e.item.k = GrammarToken(input[e.pos].text).k
            /\ e.item.t = GrammarToken(input[e.pos].text).t

----------------------------------------------------------------------------
(* C19 *)

\* the latest assembly ended in expected(): a Parse error that names tags
EndedInExpected ==
    /\ assembled # <<>>
    /\ Last(assembled).k = "Err"
    /\ Last(assembled).err.k = "Parse"
    /\ Last(assembled).err.exp # <<>>

\* what the claim says the error names as found, for the lookahead token
FoundAsClaimed(token) ==
    CASE token.k = "Message" -> token.t
      [] token.k = "Continuation" -> <<Q>>
      [] token.k = "Comment" -> <<"#">> \o token.t

\* what the error does name as found: for a message tag, its marker
FoundAsReported(token) ==
    CASE token.k = "Message" -> token.p
      [] token.k = "Continuation" -> <<Q>>
      [] token.k = "Comment" -> <<"#">> \o token.t

\* C19: the error for an absent mandatory tag carries the line number of
\* the lookahead token and, as what was found, the tag name for a message
\* tag, a double quote for a continuation, # and the sub-kind for a
\* comment; the assembly gives None only when the lines are exhausted.
C19_FoundNamed ==
    /\ EndedInExpected =>
           /\ _lines.has
           /\ _lines.item.k \in {"Message", "Continuation", "Comment"}
           /\ Last(assembled).err.n = _lines.item.n
           /\ Last(assembled).err.got = Some(FoundAsClaimed(_lines.item))
    /\ (assembled # <<>> /\ Last(assembled).k = "None") =>
           _lines.pos = Len(input) /\ _lines.has /\ _lines.item.k = "None"

\* C19 with the marker in place of the tag name
C19_MarkerNamed ==
    /\ EndedInExpected =>
           /\ _lines.has
           /\ _lines.item.k \in {"Message", "Continuation", "Comment"}
           /\ Last(assembled).err.n = _lines.item.n
           /\ Last(assembled).err.got = Some(FoundAsReported(_lines.item))
    /\ (assembled # <<>> /\ Last(assembled).k = "None") =>
           _lines.pos = Len(input) /\ _lines.has /\ _lines.item.k = "None"

\* C19 for the lookaheads that are not message tags
C19_OtherThanTags ==
    (_lines.has /\ _lines.item.k # "Message") => C19_FoundNamed

----------------------------------------------------------------------------
(* C20 *)

\* the last line of the input that any assembly consumed (0 if none did)
LastConsumed ==
    MaxOf({0} \cup UNION {SetOf(assembled[k].used) : k \in 1..Len(assembled)})

\* the items handed to the caller: what next() returned before the end
HandedOut == Cardinality({k \in 1..Len(yielded) : yielded[k].k # "None"})

\* the reader holds one item ahead of the caller, the last one assembled,
\* and the line source has read at most one non-blank line past the lines
\* consumed
OneAhead ==
    phase = "reader" =>
        /\ _next_unit = Last(assembled)
        /\ Len(assembled) = HandedOut + (IF FirstIsHeader THEN 1 ELSE 0) + 1
        /\ Cardinality({i \in (LastConsumed + 1).._lines.pos :
                           KindAt(i) # "Blank"}) <= 1

\* C20: after PoReader::new and after each call of next() the reader holds
\* one read-ahead item and the line source is at most one non-blank line
\* past the lines consumed; a call of next() assembles at most one entry.
ThmC20_OneAhead ==
    /\ []OneAhead
    /\ [][phase = "reader" => Len(assembled') <= Len(assembled) + 1]_vars

\* a unit was returned, the reader holds the item after it, and the line
\* source holds the one line it has peeked past the lines consumed
WitnessC20 ==
    /\ phase = "reader"
    /\ \E k \in UnitsOf(yielded) : TRUE
    /\ _next_unit.k # "None"
    /\ _lines.has
    /\ _lines.item.k # "None"
    /\ _lines.pos > LastConsumed

----------------------------------------------------------------------------
(* C21 *)

\* the lines of the input up to line i that failed to be read
FailedUpTo(i) == {j \in 1..i : ~input[j].ok}

\* the items of the line source that the reader has read so far
ProducedSoFar == {e \in SetOf(Produced(LineIter_new)) : e.pos <= _lines.pos}

\* the Err items assembled that pass on a read failure, with the line of it
IoErrors ==
    {k \in 1..Len(assembled) :
        /\ assembled[k].k = "Err"
        /\ assembled[k].used # <<>>
        /\ ~input[Last(assembled[k].used)].ok}

\* C21: a read failure is surfaced as Err(Io(k, cause)) with k the 1-based
\* index of the input line at which it occurred, also when it follows an
\* earlier read failure, and a line classified after a read failure carries
\* its true 1-based index.
C21_TrueIndex ==
    /\ \A e \in ProducedSoFar :
           /\ e.item.n = e.pos
           /\ ~input[e.pos].ok => e.item.k = "Io"
    /\ \A k \in IoErrors :
           assembled[k].err = IoError(Last(assembled[k].used))

\* What the code does: _n counts the lines read without failure, so each
\* item carries the index of its line less the read failures before it; a
\* read failure is Io(_n + 1), and the reader passes it on as it is.
C21_IndexLagsByFailures ==
    /\ \A e \in ProducedSoFar :
           /\ e.item.n = e.pos - Cardinality(FailedUpTo(e.pos - 1))
           /\ ~input[e.pos].ok <=> e.item.k = "Io"
    /\ \A k \in IoErrors :
           assembled[k].err =
               IoError(Last(assembled[k].used)
                       - Cardinality(FailedUpTo(Last(assembled[k].used) - 1)))

\* The first read failure of the input carries its true line index.
C21_FirstFailure ==
    \A k \in IoErrors :
        FailedUpTo(Last(assembled[k].used) - 1) = {}
            => assembled[k].err = IoError(Last(assembled[k].used))

----------------------------------------------------------------------------
(* C22 *)

\* the kind the grammar gives to line i of the input
GrammarKindAt(i) ==
    IF ~input[i].ok THEN "Io"
    ELSE IF NoWs(input[i].text) = <<>> THEN "Blank"
    ELSE GrammarToken(input[i].text).k

\* the sub-kind of the comment on line i, and its text: what follows the #,
\* the sub-kind character and the whitespace after them
SubKindAt(i) == GrammarToken(input[i].text).t[1]
CommentTextAt(i) ==
    LET line == input[i].text
        a == SkipWs(line, 1)
        b == IF SubKindAt(i) = " " THEN a + 1 ELSE a + 2
    IN  SubSeq(line, SkipWs(line, b), Len(line))

\* the elements of a set of line indices, in file order
RECURSIVE InFileOrder(_)
InFileOrder(S) ==
    IF S = {} THEN <<>> ELSE <<MinOf(S)>> \o InFileOrder(S \ {MinOf(S)})

\* the whitespace-separated non-empty tokens of a text
RECURSIVE Words(_)
Words(s) ==
    IF s = <<>> THEN <<>>
    ELSE IF IsWhitespace(s[1]) THEN Words(Tail(s))
    ELSE LET n == MinOf({Len(s) + 1} \cup {j \in 1..Len(s) : IsWhitespace(s[j])})
         IN  <<SubSeq(s, 1, n - 1)>> \o Words(SubSeq(s, n, Len(s)))

\* the comments of the entry of a unit, by the grammar: the comment lines
\* that run up to its first tag line, blank lines aside
EntryComments(item) ==
    LET first == MinOf({i \in SetOf(item.used) :
                           GrammarKindAt(i) \in {"Message", "Continuation"}})
    IN  {i \in 1..(first - 1) :
            /\ GrammarKindAt(i) = "Comment"
            /\ \A j \in i..(first - 1) : GrammarKindAt(j) \in {"Comment", "Blank"}}

\* the notes and the locations that a run of comment lines makes
RECURSIVE NotesOf(_)
NotesOf(is) ==
    IF is = <<>> THEN <<>>
    ELSE (CASE SubKindAt(Head(is)) = "." -> <<<<"Developer", CommentTextAt(Head(is))>>>>
            [] SubKindAt(Head(is)) = " " -> <<<<"Translator", CommentTextAt(Head(is))>>>>
            [] OTHER -> <<>>)
         \o NotesOf(Tail(is))
RECURSIVE LocationsOf(_)
LocationsOf(is) ==
    IF is = <<>> THEN <<>>
    ELSE (IF SubKindAt(Head(is)) = ":" THEN Words(CommentTextAt(Head(is))) ELSE <<>>)
         \o LocationsOf(Tail(is))

\* a ','-comment of the run lists the flag fuzzy
FuzzyIn(S) ==
    \E i \in S : SubKindAt(i) = "," /\ FlagListed(CommentTextAt(i), "fuzzy")

\* the comments that follow the last entry: comment lines with nothing but
\* comments and blank lines after them
TrailingComments ==
    {i \in 1..Len(input) :
        /\ GrammarKindAt(i) = "Comment"
        /\ \A j \in i..Len(input) : GrammarKindAt(j) \in {"Comment", "Blank"}}

\* the last line consumed by the assemblies before the k-th
ConsumedBefore(k) ==
    MaxOf({0} \cup UNION {SetOf(assembled[j].used) : j \in 1..(k - 1)})

\* the k-th assembly starts at one of the trailing comments
StartsInTrailing(k) == FollowingLine(ConsumedBefore(k)) \in TrailingComments

\* the notes, the locations and the flags of the units
UnitComments ==
    \A k \in UnitsOf(yielded) :
        /\ yielded[k].unit._notes = NotesOf(InFileOrder(EntryComments(yielded[k])))
        /\ yielded[k].unit._locations =
               LocationsOf(InFileOrder(EntryComments(yielded[k])))
        /\ yielded[k].unit._state = "NeedsWork" <=> FuzzyIn(EntryComments(yielded[k]))

\* C22: the notes of a yielded unit are the '.'-comments (Developer) and the
\* plain comments (Translator) before the first tag line of its entry, in
\* file order, its locations the whitespace-separated tokens of the
\* ':'-comments, and a ','-comment sets the state if it lists fuzzy and
\* changes nothing else; the comments after the last entry are part of no
\* unit and give neither a unit nor an error.
C22_Comments ==
    /\ UnitComments
    /\ \A k \in 1..Len(assembled) :
           /\ assembled[k].k = "Ok" => SetOf(assembled[k].used) \cap TrailingComments = {}
           /\ StartsInTrailing(k) => assembled[k].k = "None"

\* a plain comment whose text is a quoted string, or starts with a tag
QuotedComment(i) ==
    /\ GrammarKindAt(i) = "Comment"
    /\ KindAt(i) # "Comment"

\* C22 holds where the classifier takes for comments the lines that are
\* comments by the grammar, and no others
C22_WhereClassified ==
    (\A i \in 1..Len(input) :
        KindAt(i) = "Comment" <=> GrammarKindAt(i) = "Comment") => C22_Comments

\* a trailing comment that is a quoted string gives an error, whenever the
\* reader comes to it
C22_QuotedTrailingFails ==
    \A k \in 1..Len(assembled) :
        (StartsInTrailing(k) /\ QuotedComment(FollowingLine(ConsumedBefore(k))))
            => /\ assembled[k].k = "Err"
               /\ assembled[k].err =
                      ParseError(LineNumber(FollowingLine(ConsumedBefore(k))),
                                 Some(<<Q>>), <<"msgid">>)

----------------------------------------------------------------------------
(* C23 *)

\* the lines an assembly consumed that the grammar reads as the tag under a
\* marker that ends in "|" (#| or #~|), and as the tag under another marker
PreviousLinesOf(item, tag) ==
    {i \in SetOf(item.used) :
        GrammarToken(input[i].text) = [k |-> "Message", t |-> <<"|", tag>>]}
PlainLinesOf(item, tag) ==
    {i \in SetOf(item.used) :
        GrammarToken(input[i].text) = [k |-> "Message", t |-> <<tag>>]}

\* the text of tag line i: its own and that of its continuation lines
TextOf(i) == ReplacedBodies(MessageRun(i))

\* the previous values of a unit are those of the previous-value lines of
\* its entry
PreviousFrom(item) ==
    /\ item.unit._prev_context =
           IF PreviousLinesOf(item, "msgctxt") = {} THEN None
           ELSE Some(TextOf(MinOf(PreviousLinesOf(item, "msgctxt"))))
    /\ item.unit._prev_source =
           IF PreviousLinesOf(item, "msgid") = {} THEN Empty
           ELSE Singular(TextOf(MinOf(PreviousLinesOf(item, "msgid"))))
    /\ is_plural(item.unit._prev_source) => PreviousLinesOf(item, "msgid") # {}
    /\ \A i \in PreviousLinesOf(item, "msgctxt") \cup PreviousLinesOf(item, "msgid"),
          j \in PlainLinesOf(item, "msgctxt") \cup PlainLinesOf(item, "msgid") :
           i < j

\* C23: the previous context of a yielded unit is set, and its previous
\* source is not Empty, only if its entry holds the #| (or #~|) msgctxt,
\* msgid line before its msgctxt and msgid; the previous context is the text
\* of that msgctxt line, the previous source is Empty without a #| msgid
\* line and Singular of its text with one, and Plural at most after a
\* #| msgid line; plain msgctxt and msgid lines never fill the previous
\* values.
InvC23_PreviousValues ==
    \A k \in UnitsOf(yielded) : PreviousFrom(yielded[k])

\* an obsolete unit was yielded with the previous context of its #~| msgctxt
\* line and the previous source of its #~| msgid line and the continuation
\* line after it, and with a context of its own
WitnessC23 ==
    \E k \in UnitsOf(yielded) :
        /\ yielded[k].unit._prev_context = Some(<<"q">>)
        /\ yielded[k].unit._prev_source = Singular(<<"p", "r">>)
        /\ yielded[k].unit._context = Some(<<"c">>)
        /\ yielded[k].unit._obsolete

----------------------------------------------------------------------------
(* C24 *)

\* the calls that did not return: the panic!() of expected, the
\* unreachable!() of parse_comments and parse_msg, the assert!s of parse_unit
Panicked(items) == {k \in 1..Len(items) : items[k].k = "Panic"}

\* the lines of the input that are malformed, and those that failed to be read
MalformedLines == {i \in 1..Len(input) : KindAt(i) = "Syntax"}
FailedLines == {i \in 1..Len(input) : ~input[i].ok}

\* C24: whatever the lines of the input, malformed lines and read failures
\* at any place among them, neither PoReader::new nor any call of next()
\* panics: none of the panic!(), unreachable!() and assert! branches of
\* expected, parse_comments, parse_msg and parse_unit is taken.
InvC24_NoPanic ==
    /\ phase # "panicked"
    /\ Panicked(assembled) = {}
    /\ Panicked(yielded) = {}
    /\ _next_unit.k # "Panic"

\* a line that failed to be read, or a malformed line, was passed on as an
\* error, and the unit of the entry after it was yielded
WitnessC24 ==
    /\ phase = "reader"
    /\ \E k \in UnitsOf(yielded) :
           /\ k > 1
           /\ yielded[k - 1].k = "Err"
           /\ yielded[k - 1].used # <<>>
           /\ Last(yielded[k - 1].used) \in FailedLines \cup MalformedLines

====
